---- MODULE Spec2Model ----
(***************************************************************************)
(* A model of convert_to_ipynb.py: LectureConverter turns a lecture script *)
(* (a Python file written against the text/link/image DSL) into the cell   *)
(* list of a notebook.  The script is held as its syntax tree: statements  *)
(* and expressions are records whose "node" field is the ast class name.   *)
(* Strings are TLA+ strings; rendering concatenates them as the f-strings  *)
(* of the source do.                                                       *)
(***************************************************************************)
EXTENDS Integers, Sequences, FiniteSets, TLC

VARIABLES
    tree,              \* self.tree.body: the parsed script
    references_py,     \* the references.py beside the script: [exists, body]
    functions,         \* self.functions
    references,        \* self.references
    cells,             \* self.cells
    current_markdown,  \* self.current_markdown
    current_code,      \* self.current_code
    entry_point,       \* convert's local entry_point
    stack,             \* the active process_body calls: [body, i], innermost last
    pc,                \* where convert is: convert, walk, finish, done, RecursionError
    parts,             \* history: for each cell, the buffer it was joined from
    appended,          \* history: every append to a buffer, [cell_type, item]
    seams              \* history: Len(cells) right after each local call or empty content call

\* what __init__ sets and nothing changes afterwards
fixed == <<tree, references_py, functions, references>>

vars == <<fixed, cells, current_markdown, current_code,
          entry_point, stack, pc, parts, appended, seams>>

----------------------------------------------------------------------------
(* Bounds of the model.                                                    *)

\* Longest body of the entry function in the walk family of scripts.
MaxBody == 3
\* Most reference assignments in the script of the reference family.
MaxRefs == 2
\* Most function definitions in the script of the entry family.
MaxDefs == 3
\* Depth of process_body calls at which the interpreter raises RecursionError
\* (sys.getrecursionlimit() frames in CPython; a small number here).
RecursionLimit == 4

----------------------------------------------------------------------------
(* The syntax tree.                                                        *)

Constant(v) == [node |-> "Constant", value |-> v]
Name(id) == [node |-> "Name", id |-> id]
Attribute(id) == [node |-> "Attribute", attr |-> id]
Call(func, args, keywords) ==
    [node |-> "Call", func |-> func, args |-> args, keywords |-> keywords]
keyword(arg, value) == [arg |-> arg, value |-> value]
Tuple(elts) == [node |-> "Tuple", elts |-> elts]
FormattedValue(value) == [node |-> "FormattedValue", value |-> value]
JoinedStr(values) == [node |-> "JoinedStr", values |-> values]
Compare(left) == [node |-> "Compare", left |-> left]

\* A statement carries the text ast.get_source_segment returns for it.
Expr(value, src) == [node |-> "Expr", value |-> value, src |-> src]
Assign(targets, value, src) ==
    [node |-> "Assign", targets |-> targets, value |-> value, src |-> src]
FunctionDef(name, body, src) ==
    [node |-> "FunctionDef", name |-> name, body |-> body, src |-> src]
ClassDef(name, src) == [node |-> "ClassDef", name |-> name, src |-> src]
Import(src) == [node |-> "Import", src |-> src]
If(test, src) == [node |-> "If", test |-> test, src |-> src]

\* The absent argument (Python's None in get_arg_value).
None == [node |-> "None"]

----------------------------------------------------------------------------
(* Strings.                                                                *)

startswith(s, prefix) ==
    /\ Len(s) >= Len(prefix)
    /\ SubSeq(s, 1, Len(prefix)) = prefix

Whitespace == {" ", "\n", "\t", "\r"}

RECURSIVE rstrip(_)
rstrip(s) ==
    IF Len(s) > 0 /\ SubSeq(s, Len(s), Len(s)) \in Whitespace
    THEN rstrip(SubSeq(s, 1, Len(s) - 1))
    ELSE s

RECURSIVE lstrip(_)
lstrip(s) ==
    IF Len(s) > 0 /\ SubSeq(s, 1, 1) \in Whitespace
    THEN lstrip(SubSeq(s, 2, Len(s)))
    ELSE s

strip(s) == rstrip(lstrip(s))

\* sep.join(items)
RECURSIVE join(_, _)
join(sep, items) ==
    IF items = <<>> THEN ""
    ELSE IF Len(items) = 1 THEN items[1]
    ELSE items[1] \o sep \o join(sep, Tail(items))

\* filter(None, items): the non-empty strings of items
RECURSIVE filter_none(_)
filter_none(items) ==
    IF items = <<>> THEN <<>>
    ELSE IF items[1] = "" THEN filter_none(Tail(items))
    ELSE <<items[1]>> \o filter_none(Tail(items))

----------------------------------------------------------------------------
(* Values of get_arg_value: a str, or a (title, url) tuple of a reference. *)

Str(s) == [tuple |-> FALSE, val |-> s]
Pair(title, url) == [tuple |-> TRUE, val |-> <<title, url>>]

\* truthiness of such a value: a non-empty str, or any 2-tuple
truthy(v) == v.tuple \/ v.val # ""

\* how an f-string shows such a value: str as is, a tuple by its repr
fmt(v) ==
    IF v.tuple THEN "('" \o v.val[1] \o "', '" \o v.val[2] \o "')" ELSE v.val

----------------------------------------------------------------------------
(* The module constant.                                                    *)

CONTENT_FUNCTIONS ==
    {"text", "link", "image", "system_text",
     "named_link", "article_link", "blog_link", "x_link", "youtube_link"}

----------------------------------------------------------------------------
(* __init__: the table of top-level functions.  A dict is a sequence of    *)
(* [key, value] entries in insertion order; assigning to a key that is     *)
(* present replaces its value in place.                                    *)

dict_has(d, key) == \E k \in 1..Len(d) : d[k].key = key

dict_get(d, key) == d[CHOOSE k \in 1..Len(d) : d[k].key = key].value

dict_set(d, key, value) ==
    IF dict_has(d, key)
    THEN [k \in 1..Len(d) |->
            IF d[k].key = key THEN [key |-> key, value |-> value] ELSE d[k]]
    ELSE Append(d, [key |-> key, value |-> value])

\* {node.name: node for node in body[1..n] if isinstance(node, ast.FunctionDef)}
RECURSIVE function_table(_, _)
function_table(body, n) ==
    IF n = 0 THEN <<>>
    ELSE LET d == function_table(body, n - 1)
         IN  IF body[n].node = "FunctionDef"
             THEN dict_set(d, body[n].name, body[n])
             ELSE d

----------------------------------------------------------------------------
(* load_references: the symbol table, a function from names to <<title,    *)
(* url>>.                                                                  *)

\* the keyword argument absent (kwarg_name=None)
NoKwarg == ""

get_arg_value_simple(node, arg_index, kwarg_name) ==
    IF arg_index < Len(node.args) /\ node.args[arg_index + 1].node = "Constant"
    THEN node.args[arg_index + 1].value
    ELSE IF /\ kwarg_name # NoKwarg
            /\ \E k \in 1..Len(node.keywords) :
                  /\ node.keywords[k].arg = kwarg_name
                  /\ node.keywords[k].value.node = "Constant"
    THEN LET k == CHOOSE j \in 1..Len(node.keywords) :
                     /\ node.keywords[j].arg = kwarg_name
                     /\ node.keywords[j].value.node = "Constant"
                     /\ \A h \in 1..(j - 1) :
                           ~ (/\ node.keywords[h].arg = kwarg_name
                              /\ node.keywords[h].value.node = "Constant")
         IN  node.keywords[k].value.value
    ELSE ""

NoRefs == [n \in {} |-> <<"", "">>]

\* refs.update(more)
update(refs, more) ==
    [n \in DOMAIN refs \cup DOMAIN more |-> IF n \in DOMAIN more THEN more[n] ELSE refs[n]]

\* the names among an assignment's targets
target_names(targets) ==
    {targets[k].id : k \in {j \in 1..Len(targets) : targets[j].node = "Name"}}

\* bind_targets without the fallback of an empty title to the name
bind_targets_no_fallback(refs, targets, ref_title, ref_url) ==
    update(refs, [n \in target_names(targets) |-> <<ref_title, ref_url>>])

\* refs[name] = (ref_title or name, ref_url) for every Name target
bind_targets(refs, targets, ref_title, ref_url) ==
    update(refs, [n \in target_names(targets) |->
                    <<IF ref_title # "" THEN ref_title ELSE n, ref_url>>])

\* _scan_for_refs over body[1..n]
RECURSIVE scan_for_refs(_, _)
scan_for_refs(body, n) ==
    IF n = 0 THEN NoRefs
    ELSE LET refs == scan_for_refs(body, n - 1)
             stmt == body[n]
         IN  IF /\ stmt.node = "Assign"
                /\ stmt.value.node = "Call"
                /\ stmt.value.func.node = "Name"
             THEN LET id == stmt.value.func.id
                      ref_title ==
                          IF id = "Reference"
                          THEN get_arg_value_simple(stmt.value, 0, "title")
                          ELSE ""
                      ref_url ==
                          IF id = "Reference"
                          THEN get_arg_value_simple(stmt.value, 1, "url")
                          ELSE IF id = "arxiv_reference"
                          THEN get_arg_value_simple(stmt.value, 0, NoKwarg)
                          ELSE ""
                  IN  IF ref_url # ""
                      THEN bind_targets(refs, stmt.targets, ref_title, ref_url)
                      ELSE refs
             ELSE refs

_scan_for_refs(body) == scan_for_refs(body, Len(body))

\* load_references with the two scans in the other order
load_references_swapped(refs_py, body) ==
    LET refs == update(NoRefs, _scan_for_refs(body))
    IN  IF refs_py.exists THEN update(refs, _scan_for_refs(refs_py.body)) ELSE refs

load_references(refs_py, body) ==
    LET refs == IF refs_py.exists
                THEN update(NoRefs, _scan_for_refs(refs_py.body))
                ELSE NoRefs
    IN  update(refs, _scan_for_refs(body))

----------------------------------------------------------------------------
(* get_arg_value and format_content_call.                                  *)

\* the argument get_arg_value looks at: positional first, else the first
\* keyword of that name, else None
pick_arg(node, arg_index, kwarg_name) ==
    IF arg_index < Len(node.args) THEN node.args[arg_index + 1]
    ELSE IF /\ kwarg_name # NoKwarg
            /\ \E k \in 1..Len(node.keywords) : node.keywords[k].arg = kwarg_name
    THEN LET k == CHOOSE j \in 1..Len(node.keywords) :
                     /\ node.keywords[j].arg = kwarg_name
                     /\ \A h \in 1..(j - 1) : node.keywords[h].arg # kwarg_name
         IN  node.keywords[k].value
    ELSE None

\* for stmt in reversed(context_body): statements k, k-1, ..., 1 are left
RECURSIVE scan_context(_, _, _, _)
scan_context(context_body, k, node, id) ==
    IF k = 0 THEN id
    ELSE LET stmt == context_body[k]
         IN  IF stmt = node THEN scan_context(context_body, k - 1, node, id)
             ELSE IF /\ stmt.node = "Assign"
                     /\ Len(stmt.targets) = 1
                     /\ stmt.targets[1].node = "Name"
                     /\ stmt.targets[1].id = id
             THEN IF stmt.value.node = "Constant" THEN stmt.value.value
                  ELSE IF /\ stmt.value.node = "Call"
                          /\ stmt.value.func.node = "Name"
                          /\ stmt.value.func.id = "run_policy_gradient"
                  THEN id
                  ELSE scan_context(context_body, k - 1, node, id)
             ELSE scan_context(context_body, k - 1, node, id)

\* the f-string branch: constant parts kept, variables shown as {name}
RECURSIVE joined_str(_)
joined_str(values) ==
    IF values = <<>> THEN ""
    ELSE LET part == values[1]
             piece == IF part.node = "Constant" THEN part.value
                      ELSE IF part.node = "FormattedValue"
                      THEN IF part.value.node = "Name"
                           THEN "{" \o part.value.id \o "}"
                           ELSE "{...}"
                      ELSE ""
         IN  piece \o joined_str(Tail(values))

get_arg_value(node, arg_index, kwarg_name, context_body) ==
    LET arg == pick_arg(node, arg_index, kwarg_name)
    IN  IF arg.node = "None" THEN Str("")
        ELSE IF arg.node = "Constant" THEN Str(arg.value)
        ELSE IF arg.node = "Name"
        THEN IF arg.id \in DOMAIN references
             THEN Pair(references[arg.id][1], references[arg.id][2])
             ELSE Str(scan_context(context_body, Len(context_body), node, arg.id))
        ELSE IF arg.node = "JoinedStr" THEN Str(joined_str(arg.values))
        ELSE Str("")

format_text(node, context_body) ==
    LET val == get_arg_value(node, 0, NoKwarg, context_body)
    IN  IF val.tuple THEN val.val[1] ELSE val.val

format_link(node, context_body) ==
    LET arg0 == get_arg_value(node, 0, "title", context_body)
        title0 == IF arg0.tuple THEN arg0.val[1] ELSE arg0.val
        url0 == IF arg0.tuple THEN Str(arg0.val[2])
                ELSE get_arg_value(node, 1, "url", context_body)
        lookup == (url0.tuple \/ url0.val = "") /\ title0 \in DOMAIN references
        title == IF lookup THEN references[title0][1] ELSE title0
        url == IF lookup THEN Str(references[title0][2]) ELSE url0
    IN  IF ~ truthy(url) THEN title
        ELSE "[" \o title \o "](" \o fmt(url) \o ")"

\* The directory of the script holds no image files (os.path.exists is
\* false), so a local path falls through to the plain Markdown form.
format_image(node, context_body) ==
    LET p == get_arg_value(node, 0, NoKwarg, context_body)
        path == IF p.tuple THEN p.val[2] ELSE p.val
        width == get_arg_value(node, 1, "width", context_body)
        shown == IF truthy(width)
                 THEN "<img src=\"" \o path \o "\" width=\"" \o fmt(width) \o "\" />"
                 ELSE "![image](" \o path \o ")"
    IN  IF startswith(path, "http://") \/ startswith(path, "https://")
        THEN shown
        ELSE shown

format_url_link(node, context_body) ==
    LET u == get_arg_value(node, 0, NoKwarg, context_body)
        url == IF u.tuple THEN u.val[2] ELSE u.val
    IN  "[link](" \o url \o ")"

format_named_link(node, context_body) ==
    LET n == get_arg_value(node, 0, NoKwarg, context_body)
        u == get_arg_value(node, 1, NoKwarg, context_body)
        name == IF n.tuple THEN n.val[1] ELSE n.val
        url == IF u.tuple THEN u.val[2] ELSE u.val
    IN  "[" \o name \o "](" \o url \o ")"

format_content_call(node, context_body) ==
    LET func_name == node.func.id
    IN  IF func_name = "text" THEN format_text(node, context_body)
        ELSE IF func_name = "link" THEN format_link(node, context_body)
        ELSE IF func_name = "image" THEN format_image(node, context_body)
        ELSE IF func_name \in {"article_link", "blog_link", "x_link", "youtube_link"}
        THEN format_url_link(node, context_body)
        ELSE IF func_name = "named_link" THEN format_named_link(node, context_body)
        ELSE ""

----------------------------------------------------------------------------
(* The buffers and the cell list.  "self" is the record of the four fields *)
(* a flush reads and writes (parts follows cells).                         *)

markdown_cell(buffer) ==
    [cell_type |-> "markdown", source |-> <<join("\n\n", buffer) \o "\n">>]

code_cell(buffer) ==
    [cell_type |-> "code", source |-> <<rstrip(join("", buffer)) \o "\n">>]

flush_markdown(self) ==
    IF self.current_markdown # <<>>
    THEN [self EXCEPT !.cells = Append(@, markdown_cell(self.current_markdown)),
                      !.parts = Append(@, self.current_markdown),
                      !.current_markdown = <<>>]
    ELSE self

\* flush_code that forgets to empty the buffer
flush_code_keeps(self) ==
    IF self.current_code # <<>>
    THEN [self EXCEPT !.cells = Append(@, code_cell(self.current_code)),
                      !.parts = Append(@, self.current_code)]
    ELSE self

flush_code(self) ==
    IF self.current_code # <<>>
    THEN [self EXCEPT !.cells = Append(@, code_cell(self.current_code)),
                      !.parts = Append(@, self.current_code),
                      !.current_code = <<>>]
    ELSE self

Self ==
    [cells |-> cells, parts |-> parts,
     current_markdown |-> current_markdown, current_code |-> current_code]

\* the fields of the converter after a step that leaves them as `self`
Becomes(self) ==
    /\ cells' = self.cells
    /\ parts' = self.parts
    /\ current_markdown' = self.current_markdown
    /\ current_code' = self.current_code

----------------------------------------------------------------------------
(* process_body: how a statement is classified.                            *)

is_content_call(e) ==
    /\ e.node = "Call"
    /\ e.func.node = "Name"
    /\ e.func.id \in CONTENT_FUNCTIONS

\* the tuple branch's all_content: no element breaks the loop
all_content(elts) == \A k \in 1..Len(elts) : is_content_call(elts[k])

\* line_markdown of an all-content tuple: the non-empty contents, stripped
RECURSIVE line_markdown(_, _)
line_markdown(elts, body) ==
    IF elts = <<>> THEN <<>>
    ELSE LET content == format_content_call(elts[1], body)
         IN  (IF content # "" THEN <<strip(content)>> ELSE <<>>)
                 \o line_markdown(Tail(elts), body)

\* which branch of the loop body a statement takes
branch(stmt) ==
    IF stmt.node = "Expr"
    THEN IF stmt.value.node = "Call" /\ stmt.value.func.node = "Name"
         THEN IF stmt.value.func.id \in CONTENT_FUNCTIONS THEN "content"
              ELSE IF dict_has(functions, stmt.value.func.id) THEN "call"
              ELSE "code"
         ELSE IF stmt.value.node = "Tuple" /\ all_content(stmt.value.elts)
         THEN "tuple"
         ELSE "code"
    ELSE "code"

----------------------------------------------------------------------------
(* convert: the top-level setup code and the entry point.                  *)

skipped(stmt) ==
    \/ stmt.node \in {"FunctionDef", "AsyncFunctionDef", "ClassDef"}
    \/ /\ stmt.node = "Assign"
       /\ stmt.value.node = "Call"
       /\ stmt.value.func.node = "Name"
       /\ stmt.value.func.id \in {"Reference", "arxiv_reference"}
    \/ /\ stmt.node = "If"
       /\ stmt.test.node = "Compare"
       /\ stmt.test.left.node = "Name"
       /\ stmt.test.left.id = "__name__"

\* top_level_code after the loop has seen body[1..n]
RECURSIVE top_level_code(_, _)
top_level_code(body, n) ==
    IF n = 0 THEN <<>>
    ELSE LET rest == top_level_code(body, n - 1)
         IN  IF skipped(body[n]) \/ body[n].src = "" THEN rest
             ELSE Append(rest, body[n].src \o "\n")

\* select_entry whose loop has no break: the last lecture_ function wins
select_entry_no_break ==
    IF dict_has(functions, "main") THEN "main"
    ELSE IF \E k \in 1..Len(functions) : startswith(functions[k].key, "lecture_")
    THEN functions[CHOOSE k \in 1..Len(functions) :
                      /\ startswith(functions[k].key, "lecture_")
                      /\ \A h \in (k + 1)..Len(functions) :
                            ~ startswith(functions[h].key, "lecture_")].key
    ELSE "main"

\* 'main', or the first key of self.functions that starts with lecture_
select_entry ==
    IF dict_has(functions, "main") THEN "main"
    ELSE IF \E k \in 1..Len(functions) : startswith(functions[k].key, "lecture_")
    THEN functions[CHOOSE k \in 1..Len(functions) :
                      /\ startswith(functions[k].key, "lecture_")
                      /\ \A h \in 1..(k - 1) :
                            ~ startswith(functions[h].key, "lecture_")].key
    ELSE "main"

\* the appends of `items` to a buffer, as history entries
Logged(type, items) ==
    [k \in 1..Len(items) |-> [cell_type |-> type, item |-> items[k]]]

----------------------------------------------------------------------------
(* The steps.                                                              *)

Top == stack[Len(stack)]
Stmt == Top.body[Top.i]
Walking == pc = "walk" /\ Top.i <= Len(Top.body)
Advanced == [stack EXCEPT ![Len(stack)].i = @ + 1]

\* convert up to the call of process_body (lines 250-279)
Convert ==
    /\ pc = "convert"
    /\ LET code == top_level_code(tree, Len(tree))
           entry == select_entry
       IN  /\ current_code' = current_code \o code
           /\ appended' = appended \o Logged("code", code)
           /\ entry_point' = entry
           /\ IF dict_has(functions, entry)
              THEN /\ stack' = <<[body |-> dict_get(functions, entry).body, i |-> 1]>>
                   /\ pc' = "walk"
              ELSE /\ stack' = <<>>
                   /\ pc' = "finish"
    /\ UNCHANGED <<fixed, cells, current_markdown, parts, seams>>

\* ContentCall that flushes the Markdown buffer as well: a cell per call
ContentCall_OwnCell ==
    /\ Walking
    /\ branch(Stmt) = "content"
    /\ LET flushed == flush_markdown(flush_code(Self))
           content == format_content_call(Stmt.value, Top.body)
       IN  IF content # ""
           THEN /\ Becomes([flushed EXCEPT !.current_markdown = Append(@, content)])
                /\ appended' = Append(appended, [cell_type |-> "markdown", item |-> content])
                /\ seams' = seams
           ELSE /\ Becomes(flushed)
                /\ appended' = appended
                /\ seams' = seams \cup {Len(flushed.cells)}
    /\ stack' = Advanced
    /\ UNCHANGED <<fixed, entry_point, pc>>

\* a bare call of a content function (lines 216-221)
ContentCall ==
    /\ Walking
    /\ branch(Stmt) = "content"
    /\ LET flushed == flush_code(Self)
           content == format_content_call(Stmt.value, Top.body)
       IN  IF content # ""
           THEN /\ Becomes([flushed EXCEPT !.current_markdown = Append(@, content)])
                /\ appended' = Append(appended, [cell_type |-> "markdown", item |-> content])
                /\ seams' = seams
           ELSE /\ Becomes(flushed)
                /\ appended' = appended
                /\ seams' = seams \cup {Len(flushed.cells)}
    /\ stack' = Advanced
    /\ UNCHANGED <<fixed, entry_point, pc>>

\* a bare call of a function of the script: its body is walked (lines 222-226)
LocalCall ==
    /\ Walking
    /\ branch(Stmt) = "call"
    /\ Len(stack) < RecursionLimit
    /\ LET flushed == flush_markdown(flush_code(Self))
       IN  /\ Becomes(flushed)
           /\ seams' = seams \cup {Len(flushed.cells)}
    /\ stack' = Append(Advanced,
                       [body |-> dict_get(functions, Stmt.value.func.id).body, i |-> 1])
    /\ UNCHANGED <<fixed, entry_point, pc, appended>>

\* the same call with the interpreter's stack full: process_body raises
\* RecursionError, which nothing catches
RaiseRecursionError ==
    /\ Walking
    /\ branch(Stmt) = "call"
    /\ Len(stack) >= RecursionLimit
    /\ LET flushed == flush_markdown(flush_code(Self))
       IN  /\ Becomes(flushed)
           /\ seams' = seams \cup {Len(flushed.cells)}
    /\ pc' = "RecursionError"
    /\ UNCHANGED <<fixed, entry_point, stack, appended>>

\* a tuple of content calls only (lines 227-241)
ContentTuple ==
    /\ Walking
    /\ branch(Stmt) = "tuple"
    /\ LET flushed == flush_code(Self)
           line == join(" ", filter_none(line_markdown(Stmt.value.elts, Top.body)))
       IN  /\ Becomes([flushed EXCEPT !.current_markdown = Append(@, line)])
           /\ appended' = Append(appended, [cell_type |-> "markdown", item |-> line])
    /\ stack' = Advanced
    /\ UNCHANGED <<fixed, entry_point, pc, seams>>

\* CodeStmt without the flush of the Markdown buffer
CodeStmt_NoFlush ==
    /\ Walking
    /\ branch(Stmt) = "code"
    /\ Becomes([Self EXCEPT !.current_code = Append(@, Stmt.src \o "\n")])
    /\ appended' = Append(appended, [cell_type |-> "code", item |-> Stmt.src \o "\n"])
    /\ stack' = Advanced
    /\ UNCHANGED <<fixed, entry_point, pc, seams>>

\* CodeStmt that flushes the code buffer as well: a cell per statement
CodeStmt_OwnCell ==
    /\ Walking
    /\ branch(Stmt) = "code"
    /\ Becomes([flush_code(flush_markdown(Self))
                   EXCEPT !.current_code = Append(@, Stmt.src \o "\n")])
    /\ appended' = Append(appended, [cell_type |-> "code", item |-> Stmt.src \o "\n"])
    /\ stack' = Advanced
    /\ UNCHANGED <<fixed, entry_point, pc, seams>>

\* any other statement is kept as code (lines 243-247)
CodeStmt ==
    /\ Walking
    /\ branch(Stmt) = "code"
    /\ LET flushed == flush_markdown(Self)
           stmt_source == Stmt.src
       IN  IF stmt_source # ""
           THEN /\ Becomes([flushed EXCEPT !.current_code = Append(@, stmt_source \o "\n")])
                /\ appended' = Append(appended,
                                      [cell_type |-> "code", item |-> stmt_source \o "\n"])
           ELSE /\ Becomes(flushed)
                /\ appended' = appended
    /\ stack' = Advanced
    /\ UNCHANGED <<fixed, entry_point, pc, seams>>

\* the loop of a process_body call ends and the call returns
Return ==
    /\ pc = "walk"
    /\ Top.i > Len(Top.body)
    /\ stack' = SubSeq(stack, 1, Len(stack) - 1)
    /\ pc' = IF Len(stack) = 1 THEN "finish" ELSE "walk"
    /\ UNCHANGED <<fixed, cells, current_markdown, current_code,
                   entry_point, parts, appended, seams>>

\* the closing flushes of convert (lines 281-282)
Finish ==
    /\ pc = "finish"
    /\ Becomes(flush_markdown(flush_code(Self)))
    /\ pc' = "done"
    /\ UNCHANGED <<fixed, entry_point, stack, appended, seams>>

Next ==
    \/ Convert
    \/ ContentCall
    \/ LocalCall
    \/ RaiseRecursionError
    \/ ContentTuple
    \/ CodeStmt
    \/ Return
    \/ Finish

----------------------------------------------------------------------------
(* The scripts the converter is run on.                                    *)

\* all sequences over S of length lo..hi
SeqsOf(S, lo, hi) == UNION {[1..n -> S] : n \in lo..hi}

call(name, args) == Call(Name(name), args, <<>>)

TextA == Expr(call("text", <<Constant("a")>>), "text('a')")
SystemText == Expr(call("system_text", <<Constant("s")>>), "system_text('s')")
AssignX == Assign(<<Name("x")>>, Constant("1"), "x = 1")
ContentPair ==
    Expr(Tuple(<<call("text", <<Constant("b")>>),
                 call("link", <<Constant("t"), Constant("u")>>)>>),
         "text('b'), link('t', 'u')")
MixedPair ==
    Expr(Tuple(<<call("text", <<Constant("c")>>), Name("x")>>), "text('c'), x")
SilentTuple ==
    Expr(Tuple(<<call("system_text", <<Constant("s")>>)>>), "system_text('s'),")
CallHelper == Expr(call("helper", <<>>), "helper()")
CallPrint == Expr(call("print", <<Constant("p")>>), "print('p')")

\* the statements main is made of in the walk family
WalkStmts == {TextA, SystemText, AssignX, ContentPair, SilentTuple, CallHelper}

TextH == Expr(call("text", <<Constant("h")>>), "text('h')")
AssignY == Assign(<<Name("y")>>, Constant("2"), "y = 2")
AssignZ == Assign(<<Name("z")>>, Constant("3"), "z = 3")
CallOther == Expr(call("other", <<>>), "other()")
MethodCall == Expr(Call(Attribute("f"), <<>>, <<>>), "np.f()")

\* the functions defined after main in the walk family
HelperDefs ==
    { <<>>,
      <<FunctionDef("helper", <<TextH>>, "def helper(): ...")>>,
      <<FunctionDef("helper", <<MixedPair, CallPrint>>, "def helper(): ...")>>,
      <<FunctionDef("helper", <<TextH, CallHelper>>, "def helper(): ...")>>,
      <<FunctionDef("helper", <<CallOther>>, "def helper(): ..."),
        FunctionDef("other", <<AssignZ, CallHelper>>, "def other(): ...")>>,
      <<FunctionDef("helper", <<AssignY, CallOther>>, "def helper(): ..."),
        FunctionDef("other", <<MethodCall>>, "def other(): ...")>> }

ImportOs == Import("import os")
NoReferencesPy == [exists |-> FALSE, body |-> <<>>]

WalkInputs ==
    { [tree |-> top \o <<FunctionDef("main", body, "def main(): ...")>> \o defs,
       references_py |-> NoReferencesPy] :
         top \in {<<>>, <<ImportOs>>},
         body \in SeqsOf(WalkStmts, 1, MaxBody),
         defs \in HelperDefs }

\* The local-binding family: main assigns x and shows it.
XIsA == Assign(<<Name("x")>>, Constant("a"), "x = 'a'")
XIsB == Assign(<<Name("x")>>, Constant("b"), "x = 'b'")
XIsFoo == Assign(<<Name("x")>>, call("foo", <<>>), "x = foo()")
XIsRun ==
    Assign(<<Name("x")>>, call("run_policy_gradient", <<>>), "x = run_policy_gradient()")
TextX == Expr(call("text", <<Name("x")>>), "text(x)")
LinkX == Expr(call("link", <<Name("x")>>), "link(x)")

LocalStmts == {XIsA, XIsB, XIsFoo, XIsRun, TextX, LinkX}

LocalInputs ==
    { [tree |-> <<FunctionDef("main", body, "def main(): ...")>>,
       references_py |-> NoReferencesPy] :
         body \in SeqsOf(LocalStmts, 1, MaxBody) }

\* The reference family: Reference assignments in references.py and in the
\* script, and a main that shows the names r and q.
reference(title, url) ==
    Call(Name("Reference"),
         <<>>,
         (IF title.given THEN <<keyword("title", Constant(title.value))>> ELSE <<>>)
             \o (IF url.given THEN <<keyword("url", Constant(url.value))>> ELSE <<>>))
given(v) == [given |-> TRUE, value |-> v]
absent == [given |-> FALSE, value |-> ""]

RefT1 == Assign(<<Name("r")>>, reference(given("T1"), given("u1")),
                "r = Reference(title='T1', url='u1')")
RefT2 == Assign(<<Name("r")>>, reference(given("T2"), given("u2")),
                "r = Reference(title='T2', url='u2')")
RefNoTitle == Assign(<<Name("r")>>, reference(given(""), given("u3")),
                     "r = Reference(title='', url='u3')")
RefNoUrl == Assign(<<Name("r")>>, reference(given("T4"), absent),
                   "r = Reference(title='T4')")
RefArxiv == Assign(<<Name("q")>>, call("arxiv_reference", <<Constant("u5")>>),
                   "q = arxiv_reference('u5')")

RefStmts == {RefT1, RefT2, RefNoTitle, RefNoUrl, RefArxiv}

LinkR == Expr(call("link", <<Name("r")>>), "link(r)")
TextR == Expr(call("text", <<Name("r")>>), "text(r)")
LinkQ == Expr(call("link", <<Name("q")>>), "link(q)")
TextQ == Expr(call("text", <<Name("q")>>), "text(q)")
LinkBare == Expr(call("link", <<Constant("t")>>), "link('t')")
LinkCall ==
    Expr(Call(Name("link"), <<Constant("t")>>, <<keyword("url", call("f", <<>>))>>),
         "link('t', url=f())")
TextW == Expr(call("text", <<Name("w")>>), "text(w)")

RefBody == <<LinkR, TextR, LinkQ, TextQ, LinkBare, LinkCall, TextW>>

\* what references.py may hold
ReferenceFiles ==
    {NoReferencesPy}
        \cup {[exists |-> TRUE, body |-> b] :
                 b \in {<<>>, <<RefT1>>, <<RefNoTitle>>, <<RefArxiv>>, <<RefT1, RefArxiv>>,
                        <<RefT1, RefT2>>, <<RefT2, RefNoUrl>>}}

RefInputs ==
    { [tree |-> refs \o <<FunctionDef("main", RefBody, "def main(): ...")>>,
       references_py |-> file] :
         refs \in SeqsOf(RefStmts, 0, MaxRefs),
         file \in ReferenceFiles }

\* The entry family: which functions the script defines, and in what order.
TextOf(s) == Expr(call("text", <<Constant(s)>>), "text('" \o s \o "')")

EntryDefs ==
    { FunctionDef("main", <<TextOf("m")>>, "def main(): ..."),
      FunctionDef("lecture_a", <<TextOf("la")>>, "def lecture_a(): ..."),
      FunctionDef("lecture_a", <<TextOf("la2")>>, "def lecture_a(): ..."),
      FunctionDef("lecture_b", <<TextOf("lb")>>, "def lecture_b(): ..."),
      FunctionDef("helper", <<TextOf("h")>>, "def helper(): ...") }

Setup ==
    <<ImportOs, RefT1, ClassDef("C", "class C: ..."),
      Assign(<<Name("N")>>, Constant("5"), "N = 5")>>
MainGuard ==
    <<If(Compare(Name("__name__")), "if __name__ == '__main__': main()")>>

EntryInputs ==
    { [tree |-> around[1] \o defs \o around[2], references_py |-> NoReferencesPy] :
         around \in {<<<<>>, <<>>>>, <<Setup, MainGuard>>},
         defs \in SeqsOf(EntryDefs, 0, MaxDefs) }

\* One script that shows the remaining content functions and argument forms.
Gallery ==
    <<Expr(Call(Name("image"), <<Constant("http://i")>>, <<keyword("width", Constant("9"))>>),
           "image('http://i', width='9')"),
      Expr(call("image", <<Name("r")>>), "image(r)"),
      Expr(call("named_link", <<Constant("n"), Name("r")>>), "named_link('n', r)"),
      Expr(call("article_link", <<Name("x")>>), "article_link(x)"),
      Expr(call("link", <<Constant("t"), Name("r")>>), "link('t', r)"),
      Expr(call("text", <<JoinedStr(<<Constant("a"), FormattedValue(Name("x")),
                                      FormattedValue(call("f", <<>>))>>)>>),
           "text(f'a{x}{f()}')")>>

GalleryInputs ==
    { [tree |-> <<RefT1, FunctionDef("lecture_1", Gallery, "def lecture_1(): ...")>>,
       references_py |-> NoReferencesPy] }

Inputs == WalkInputs \cup LocalInputs \cup RefInputs \cup EntryInputs \cup GalleryInputs

Init ==
    /\ \E input \in Inputs :
          /\ tree = input.tree
          /\ references_py = input.references_py
          /\ functions = function_table(input.tree, Len(input.tree))
          /\ references = load_references(input.references_py, input.tree)
    /\ cells = <<>>
    /\ current_markdown = <<>>
    /\ current_code = <<>>
    /\ entry_point = ""
    /\ stack = <<>>
    /\ pc = "convert"
    /\ parts = <<>>
    /\ appended = <<>>
    /\ seams = {}

Spec == Init /\ [][Next]_vars

----------------------------------------------------------------------------
(* What the claims speak of.                                               *)

\* a bare call, by plain name, of one of the content functions
ContentCallExpr(e) ==
    /\ e.node = "Call"
    /\ e.func.node = "Name"
    /\ e.func.id \in {"text", "link", "image", "system_text", "named_link",
                      "article_link", "blog_link", "x_link", "youtube_link"}

\* a content statement: such a call, or a tuple made only of such calls
ContentStatement(stmt) ==
    /\ stmt.node = "Expr"
    /\ \/ ContentCallExpr(stmt.value)
       \/ /\ stmt.value.node = "Tuple"
          /\ \A k \in 1..Len(stmt.value.elts) : ContentCallExpr(stmt.value.elts[k])

\* a bare call of a function defined at the top level of the script
LocalCallStatement(stmt) ==
    /\ stmt.node = "Expr"
    /\ stmt.value.node = "Call"
    /\ stmt.value.func.node = "Name"
    /\ ~ ContentCallExpr(stmt.value)
    /\ \E k \in 1..Len(tree) :
          tree[k].node = "FunctionDef" /\ tree[k].name = stmt.value.func.id

\* a code statement: any other statement
CodeStatement(stmt) == ~ ContentStatement(stmt) /\ ~ LocalCallStatement(stmt)

\* the text a content statement of `body` renders to
Rendered(stmt, body) ==
    IF stmt.value.node = "Tuple"
    THEN join(" ", filter_none(line_markdown(stmt.value.elts, body)))
    ELSE format_content_call(stmt.value, body)

\* what a statement of `body` puts out, as [cell_type, item]
OutputOf(stmt, body) ==
    IF ContentStatement(stmt)
    THEN [cell_type |-> "markdown", item |-> Rendered(stmt, body)]
    ELSE [cell_type |-> "code", item |-> stmt.src \o "\n"]

Last(seq) == seq[Len(seq)]

\* the statement before the current one in the body being walked
Previous == Top.body[Top.i - 1]

\* the items of cells k..Len(cells), each with its cell's type, in order
RECURSIVE CellItems(_)
CellItems(k) ==
    IF k > Len(cells) THEN <<>>
    ELSE Logged(cells[k].cell_type, parts[k]) \o CellItems(k + 1)

\* the entries of a sequence of outputs that hold text
RECURSIVE NonEmpty(_)
NonEmpty(outputs) ==
    IF outputs = <<>> THEN <<>>
    ELSE (IF outputs[1].item = "" THEN <<>> ELSE <<outputs[1]>>)
             \o NonEmpty(Tail(outputs))

\* the entries of a sequence of outputs that are of one type
RECURSIVE OfType(_, _)
OfType(type, outputs) ==
    IF outputs = <<>> THEN <<>>
    ELSE (IF outputs[1].cell_type = type THEN <<outputs[1].item>> ELSE <<>>)
             \o OfType(type, Tail(outputs))

\* s holds sub as a substring
Contains(s, sub) ==
    \E i \in 1..(Len(s) - Len(sub) + 1) : SubSeq(s, i, i + Len(sub) - 1) = sub

----------------------------------------------------------------------------
(* C1.  Grouping: when the walk reaches a statement whose predecessor in   *)
(* the same body is of the same kind, no cell is emitted between the two   *)
(* (the cell list stays as it is); two adjacent content statements with    *)
(* non-empty output lie next to each other in the Markdown buffer, so they *)
(* are flushed into one Markdown cell, and two adjacent code statements    *)
(* lie next to each other in the code buffer, so they are flushed into one *)
(* code cell.                                                              *)

C1_Adjacent(kind) ==
    /\ Walking
    /\ Top.i > 1
    /\ IF kind = "markdown"
       THEN ContentStatement(Previous) /\ ContentStatement(Stmt)
       ELSE CodeStatement(Previous) /\ CodeStatement(Stmt)

C1_Step ==
    /\ C1_Adjacent("markdown") =>
          LET before == Rendered(Previous, Top.body)
              now == Rendered(Stmt, Top.body)
          IN  /\ cells' = cells
              /\ (before # "" /\ now # "") =>
                    /\ current_markdown # <<>>
                    /\ Last(current_markdown) = before
                    /\ current_markdown' = Append(current_markdown, now)
    /\ C1_Adjacent("code") =>
          /\ cells' = cells
          /\ current_code # <<>>
          /\ Last(current_code) = Previous.src \o "\n"
          /\ current_code' = Append(current_code, Stmt.src \o "\n")

C1_Grouping == [][C1_Step]_vars

\* two adjacent content statements of main sit in one Markdown cell and two
\* adjacent code statements of helper in one code cell
C1_Witness ==
    /\ pc = "done"
    /\ tree # <<>>
    /\ tree[1].node = "FunctionDef"
    /\ \E k \in 1..Len(cells) :
          cells[k].cell_type = "markdown" /\ parts[k] = <<"a", "b [t](u)">>
    /\ \E k \in 1..Len(cells) :
          cells[k].cell_type = "code"
            /\ parts[k] = <<"text('c'), x\n", "print('p')\n">>

----------------------------------------------------------------------------
(* C2.  Order: when convert is done, the non-empty items of the cells,     *)
(* read cell by cell, are the outputs of the walk in walk order, each      *)
(* once: the top-level setup statements, then the statements of the entry  *)
(* function in source order, a call of a locally defined function standing *)
(* for the walk of that function's body.                                   *)

RECURSIVE WalkOutputs(_, _)
WalkOutputs(body, i) ==
    IF i > Len(body) THEN <<>>
    ELSE (IF LocalCallStatement(body[i])
          THEN WalkOutputs(dict_get(functions, body[i].value.func.id).body, 1)
          ELSE <<OutputOf(body[i], body)>>)
             \o WalkOutputs(body, i + 1)

SetupOutputs == Logged("code", top_level_code(tree, Len(tree)))

C2_WalkOrder ==
    pc = "done" =>
        NonEmpty(CellItems(1)) =
            NonEmpty(SetupOutputs
                       \o (IF dict_has(functions, entry_point)
                           THEN WalkOutputs(dict_get(functions, entry_point).body, 1)
                           ELSE <<>>))

\* setup code, then main with a call of helper in the middle of its body
C2_Witness ==
    /\ pc = "done"
    /\ tree # <<>>
    /\ tree[1].node = "Import"
    /\ dict_has(functions, "helper")
    /\ dict_has(functions, entry_point)
    /\ \E body \in {dict_get(functions, entry_point).body} :
          /\ Len(body) = 3
          /\ body[2] = CallHelper
          /\ body[1] # CallHelper
          /\ body[3] # CallHelper
    /\ Len(cells) >= 4

----------------------------------------------------------------------------
(* C3.  Flush completeness: the items of the Markdown cells followed by    *)
(* the Markdown buffer are exactly the items ever appended to that buffer, *)
(* and so for code; each item is found in the source of its cell; when     *)
(* convert is done both buffers are empty.  A flush in any state reached   *)
(* empties its buffer, leaves the other alone, appends one cell of its     *)
(* type when the buffer holds something and none when it is empty.         *)

C3_FlushEffect(type, before, after, buffer) ==
    /\ IF buffer = <<>>
       THEN after.cells = before.cells
       ELSE /\ Len(after.cells) = Len(before.cells) + 1
            /\ SubSeq(after.cells, 1, Len(before.cells)) = before.cells
            /\ Last(after.cells).cell_type = type
            /\ Last(after.parts) = buffer

C3_FlushCompleteness ==
    /\ pc = "done" => current_markdown = <<>> /\ current_code = <<>>
    /\ Len(parts) = Len(cells)
    /\ OfType("markdown", CellItems(1)) \o current_markdown
           = OfType("markdown", appended)
    /\ OfType("code", CellItems(1)) \o current_code = OfType("code", appended)
    /\ \A k \in 1..Len(cells) :
          /\ parts[k] # <<>>
          /\ \A j \in 1..Len(parts[k]) :
                Contains(cells[k].source[1], parts[k][j])
    /\ LET after == flush_markdown(Self)
       IN  /\ after.current_markdown = <<>>
           /\ after.current_code = current_code
           /\ C3_FlushEffect("markdown", Self, after, current_markdown)
    /\ LET after == flush_code(Self)
       IN  /\ after.current_code = <<>>
           /\ after.current_markdown = current_markdown
           /\ C3_FlushEffect("code", Self, after, current_code)

\* convert is done and cells of both types were flushed
C3_Witness ==
    /\ pc = "done"
    /\ Len(appended) >= 4
    /\ \E k \in 1..Len(cells) : cells[k].cell_type = "markdown"
    /\ \E k \in 1..Len(cells) : cells[k].cell_type = "code"

----------------------------------------------------------------------------
(* C4.  Classification: a walked statement adds an entry to the Markdown   *)
(* buffer if and only if it is a content statement; any other statement    *)
(* that is not a bare call of a top-level function is appended, as its     *)
(* source text, to the code buffer and adds nothing to the Markdown buffer.*)

\* the step adds one entry to the Markdown buffer
C4_Contributes ==
    /\ current_markdown' # <<>>
    /\ current_markdown' = Append(current_markdown, Last(current_markdown'))

C4_Step ==
    Walking =>
        /\ ContentStatement(Stmt) <=> C4_Contributes
        /\ CodeStatement(Stmt) =>
              /\ current_code' = Append(current_code, Stmt.src \o "\n")
              /\ current_markdown' = <<>>

C4_Classification == [][C4_Step]_vars

----------------------------------------------------------------------------
(* C5.  Entry function selection: convert walks the body of the top-level  *)
(* function named main when the script defines one, otherwise of the first *)
(* top-level function in definition order whose name starts with lecture_; *)
(* the cells then hold the setup code followed by the outputs of that      *)
(* walk.  With neither, no body is walked and the cells are the one cell   *)
(* of setup code, or none when there is no setup code.                     *)

C5_Defined(name) ==
    \E k \in 1..Len(tree) : tree[k].node = "FunctionDef" /\ tree[k].name = name

C5_IsLecture(k) ==
    tree[k].node = "FunctionDef" /\ startswith(tree[k].name, "lecture_")

\* the name the claim selects, "" when there is none
C5_Entry ==
    IF C5_Defined("main") THEN "main"
    ELSE IF \E k \in 1..Len(tree) : C5_IsLecture(k)
    THEN tree[CHOOSE k \in 1..Len(tree) :
                 C5_IsLecture(k) /\ \A h \in 1..(k - 1) : ~ C5_IsLecture(h)].name
    ELSE ""

\* the body a name stands for: that of its latest definition
C5_Body(name) ==
    tree[CHOOSE k \in 1..Len(tree) :
            /\ tree[k].node = "FunctionDef" /\ tree[k].name = name
            /\ \A h \in (k + 1)..Len(tree) :
                  ~ (tree[h].node = "FunctionDef" /\ tree[h].name = name)].body

C5_EntrySelection ==
    LET entry == C5_Entry
    IN  IF entry = ""
        THEN /\ stack = <<>>
             /\ pc = "done" =>
                   cells = IF SetupOutputs = <<>> THEN <<>>
                           ELSE <<code_cell(top_level_code(tree, Len(tree)))>>
        ELSE /\ pc # "convert" => entry_point = entry
             /\ pc = "walk" => stack[1].body = C5_Body(entry)
             /\ pc = "done" =>
                   NonEmpty(CellItems(1)) =
                       NonEmpty(SetupOutputs \o WalkOutputs(C5_Body(entry), 1))

\* no main, two lecture_ functions and the first of them was walked
C5_Witness ==
    /\ pc = "done"
    /\ ~ dict_has(functions, "main")
    /\ Len(functions) = 3
    /\ functions[1].key = "helper"
    /\ functions[2].key = "lecture_b"
    /\ functions[3].key = "lecture_a"
    /\ Len(cells) = 1
    /\ parts[1] = <<"lb">>

----------------------------------------------------------------------------
(* C6.  Reference resolution.  A name n is bound by the latest top-level   *)
(* assignment n = Reference(title=T, url=U) or n = arxiv_reference(U) with *)
(* a non-empty constant U, of the script if it has one, else of            *)
(* references.py.  For a bound n, link(n) is rendered [title](U) and       *)
(* text(n) as title, where title is T for Reference and n for              *)
(* arxiv_reference.  A name that is not bound and not assigned in the body *)
(* is rendered as itself, and link('t') without a resolvable URL as t.     *)

\* the constant given for keyword `name` of a call, "" when there is none
C6_Keyword(e, name) ==
    IF \E k \in 1..Len(e.keywords) :
          e.keywords[k].arg = name /\ e.keywords[k].value.node = "Constant"
    THEN e.keywords[CHOOSE k \in 1..Len(e.keywords) :
                       e.keywords[k].arg = name].value.value
    ELSE ""

C6_Url(e) ==
    IF e.func.id = "Reference" THEN C6_Keyword(e, "url")
    ELSE IF Len(e.args) > 0 /\ e.args[1].node = "Constant" THEN e.args[1].value
    ELSE ""

\* statement k of `body` binds n to a reference
C6_Binds(body, k, n) ==
    /\ body[k].node = "Assign"
    /\ body[k].targets = <<Name(n)>>
    /\ body[k].value.node = "Call"
    /\ body[k].value.func.node = "Name"
    /\ body[k].value.func.id \in {"Reference", "arxiv_reference"}
    /\ C6_Url(body[k].value) # ""

C6_BoundIn(body, n) == \E k \in 1..Len(body) : C6_Binds(body, k, n)

C6_LatestIn(body, n) ==
    body[CHOOSE k \in 1..Len(body) :
            /\ C6_Binds(body, k, n)
            /\ \A h \in (k + 1)..Len(body) : ~ C6_Binds(body, h, n)].value

C6_Bound(n) ==
    C6_BoundIn(tree, n) \/ (references_py.exists /\ C6_BoundIn(references_py.body, n))

\* the call that binds n
C6_Binding(n) ==
    IF C6_BoundIn(tree, n) THEN C6_LatestIn(tree, n)
    ELSE C6_LatestIn(references_py.body, n)

\* the title as the claim states it / as amended (an empty T gives way to n)
C6_TitleStated(n) ==
    IF C6_Binding(n).func.id = "Reference" THEN C6_Keyword(C6_Binding(n), "title")
    ELSE n

C6_TitleAmended(n) ==
    IF C6_TitleStated(n) = "" THEN n ELSE C6_TitleStated(n)

\* the current statement is func(arg) with one positional argument
C6_Shows(func, node) ==
    /\ Walking
    /\ Stmt.node = "Expr"
    /\ Stmt.value.node = "Call"
    /\ Stmt.value.func = Name(func)
    /\ Len(Stmt.value.args) = 1
    /\ Stmt.value.args[1].node = node

\* the body being walked assigns to n somewhere
C6_AssignedLocally(n) ==
    \E k \in 1..Len(Top.body) :
        Top.body[k].node = "Assign" /\ Name(n) \in {Top.body[k].targets[j] :
                                                      j \in 1..Len(Top.body[k].targets)}

\* the keyword url of the current call is absent or no constant and no name
C6_NoUrl ==
    \A k \in 1..Len(Stmt.value.keywords) :
        Stmt.value.keywords[k].arg = "url" =>
            Stmt.value.keywords[k].value.node \notin {"Constant", "Name"}

C6_Puts(content) == current_markdown' = Append(current_markdown, content)

C6_NameCase(func, title, url) ==
    C6_Shows(func, "Name") /\ Stmt.value.keywords = <<>> =>
        LET n == Stmt.value.args[1].id
        IN  IF C6_Bound(n)
            THEN C6_Puts(IF func = "link"
                         THEN "[" \o title[n] \o "](" \o url[n] \o ")"
                         ELSE title[n])
            ELSE ~ C6_AssignedLocally(n) => C6_Puts(n)

C6_BareLinkCase ==
    C6_Shows("link", "Constant") /\ C6_NoUrl =>
        LET t == Stmt.value.args[1].value
        IN  ~ C6_Bound(t) /\ t # "" => C6_Puts(t)

C6_Names == {"r", "q", "w", "x"}

C6_Step(title) ==
    LET bound == {n \in C6_Names : C6_Bound(n)}
        titles == [n \in bound |-> title[n]]
        urls == [n \in bound |-> C6_Url(C6_Binding(n))]
    IN  /\ C6_NameCase("link", titles, urls)
        /\ C6_NameCase("text", titles, urls)
        /\ C6_BareLinkCase

\* the claim as stated: the title of a Reference is its T, whatever T is
C6_AsStated ==
    [][C6_Step([n \in C6_Names |-> IF C6_Bound(n) THEN C6_TitleStated(n) ELSE n])]_vars

\* the claim as amended: an empty T gives way to the name
C6_ReferenceResolution ==
    [][C6_Step([n \in C6_Names |-> IF C6_Bound(n) THEN C6_TitleAmended(n) ELSE n])]_vars

\* r bound by Reference and q by arxiv_reference, both shown, and the two
\* unresolved forms
C6_Witness ==
    /\ pc = "done"
    /\ Len(parts) = 1
    /\ parts[1] = <<"[T1](u1)", "T1", "[q](u5)", "q", "t", "t", "w">>

----------------------------------------------------------------------------
(* C7.  Local variable binding: text(x) or link(x), x a plain name that is *)
(* no known reference, is rendered as the value of the latest assignment   *)
(* x = <constant> that precedes the call statement in the body being       *)
(* walked, and as x itself when no such assignment precedes it.            *)

C7_AssignsConstant(k, x) ==
    /\ Top.body[k].node = "Assign"
    /\ Top.body[k].targets = <<Name(x)>>
    /\ Top.body[k].value.node = "Constant"

C7_ValueAtCall(x) ==
    IF \E k \in 1..(Top.i - 1) : C7_AssignsConstant(k, x)
    THEN Top.body[CHOOSE k \in 1..(Top.i - 1) :
                     /\ C7_AssignsConstant(k, x)
                     /\ \A h \in (k + 1)..(Top.i - 1) : ~ C7_AssignsConstant(h, x)
                 ].value.value
    ELSE x

C7_Step ==
    /\ (C6_Shows("text", "Name") \/ C6_Shows("link", "Name"))
    /\ Stmt.value.keywords = <<>>
    /\ Stmt.value.args[1].id \notin DOMAIN references
    => C6_Puts(C7_ValueAtCall(Stmt.value.args[1].id))

C7_LocalBinding == [][C7_Step]_vars

----------------------------------------------------------------------------
(* C8.  Reference shadowing.  As stated: of the assignments of a Reference  *)
(* or arxiv_reference call to a name, the latest of the script, or else    *)
(* the latest of references.py, gives the pair the name is resolved with.  *)
(* As amended: only an assignment with a non-empty constant URL counts; an *)
(* assignment without one defines nothing and leaves an earlier definition *)
(* of the name in force.  The symbol table then holds, for every name so   *)
(* defined in the script, the pair of the latest such assignment of the    *)
(* script, whatever references.py says, and for every other name defined   *)
(* in references.py the pair of the latest such assignment there; it holds *)
(* no other name, and a content call resolves a name to the pair of the    *)
(* table.                                                                  *)

\* statement k of `body` assigns a Reference or arxiv_reference call to n
C8_Assigns(body, k, n) ==
    /\ body[k].node = "Assign"
    /\ body[k].targets = <<Name(n)>>
    /\ body[k].value.node = "Call"
    /\ body[k].value.func.node = "Name"
    /\ body[k].value.func.id \in {"Reference", "arxiv_reference"}

C8_AssignedIn(body, n) == \E k \in 1..Len(body) : C8_Assigns(body, k, n)

C8_LatestIn(body, n) ==
    body[CHOOSE k \in 1..Len(body) :
            /\ C8_Assigns(body, k, n)
            /\ \A h \in (k + 1)..Len(body) : ~ C8_Assigns(body, h, n)].value

\* the pair of the assignment that wins as the claim states it
C8_StatedPair(n) ==
    LET e == IF C8_AssignedIn(tree, n) THEN C8_LatestIn(tree, n)
             ELSE C8_LatestIn(references_py.body, n)
        title == IF e.func.id = "Reference" THEN C6_Keyword(e, "title") ELSE ""
    IN  <<IF title = "" THEN n ELSE title, C6_Url(e)>>

C8_AsStated ==
    \A n \in C6_Names :
        /\ n \in DOMAIN references => references[n] = C8_StatedPair(n)
        /\ (/\ C8_AssignedIn(tree, n)
                \/ (references_py.exists /\ C8_AssignedIn(references_py.body, n))
            /\ C8_StatedPair(n)[2] # "") => n \in DOMAIN references

C8_Table ==
    [n \in {m \in C6_Names : C6_Bound(m)} |->
        <<C6_TitleAmended(n), C6_Url(C6_Binding(n))>>]

C8_ReferenceShadowing ==
    /\ DOMAIN references = DOMAIN C8_Table
    /\ \A n \in DOMAIN C8_Table :
          /\ references[n] = C8_Table[n]
          /\ get_arg_value(call("text", <<Name(n)>>), 0, NoKwarg, <<>>)
                = Pair(C8_Table[n][1], C8_Table[n][2])

\* r is bound twice in references.py and twice in the script, q only in
\* references.py, and main has shown both
C8_Witness ==
    /\ pc = "done"
    /\ references_py = [exists |-> TRUE, body |-> <<RefT1, RefArxiv>>]
    /\ Len(tree) = 3
    /\ SubSeq(tree, 1, 2) = <<RefT1, RefT2>>
    /\ parts[1][1] = "[T2](u2)"
    /\ parts[1][3] = "[q](u5)"

----------------------------------------------------------------------------
(* C9.  Termination: convert runs to its end for every script; the walk    *)
(* never dies of an uncaught RecursionError, whatever the call graph among *)
(* the top-level functions.                                                *)

C9_Terminates == pc \in {"convert", "walk", "finish", "done"}

----------------------------------------------------------------------------
(* C10.  Cell alternation.  As stated: no two adjacent cells have the same *)
(* cell_type.  As amended: two adjacent cells have the same cell_type only *)
(* where the walk, between filling the one and the other, visited a call   *)
(* of a locally defined function or a content call that rendered to empty  *)
(* text.                                                                   *)

C10_SameType(k) == cells[k].cell_type = cells[k + 1].cell_type

C10_AsStated == \A k \in 1..(Len(cells) - 1) : ~ C10_SameType(k)

C10_CellAlternation == \A k \in 1..(Len(cells) - 1) : C10_SameType(k) => k \in seams

\* two code cells in a row at an empty content call, and cells that alternate
C10_Witness ==
    /\ pc = "done"
    /\ Len(cells) >= 4
    /\ \E k \in 1..(Len(cells) - 1) : C10_SameType(k) /\ cells[k].cell_type = "code"
    /\ \E k \in 1..(Len(cells) - 1) : ~ C10_SameType(k) /\ k \in seams

====
